---------------------------- MODULE Spec2Model ----------------------------
(***************************************************************************)
(* A model of the geometry kernel of talc: the scalar utilities            *)
(* (utilities.rs), the angle classifier (geometry/angle.rs), the           *)
(* intersection, extension and clipping routines (geometry/line.rs) and    *)
(* the canvas clamp on integer positions (lib.rs).                         *)
(*                                                                         *)
(* Every routine is a pure function; each is an operator here, computed    *)
(* step by step as the code computes it.  A specification draws the        *)
(* arguments of one family of routines in its initial state (pc = "start") *)
(* and its actions apply the routines to them.                             *)
(*                                                                         *)
(* Numbers.  An f32/f64 is modelled as an exact rational <<n, d>> in       *)
(* lowest terms with d > 0, or one of the non-finite values <<1, 0>>       *)
(* (+inf), <<-1, 0>> (-inf), <<0, 0>> (NaN).  The result of +, -, * and /   *)
(* is rounded to the nearest value with the 24-bit significand of an f32,  *)
(* ties to even; values of magnitude below 2^-7, the exponent range and    *)
(* the sign of a zero are not modelled.  An angle is an f64 counted in     *)
(* units of PI (so 2.0 * PI is 2 and 0.5 * PI is 1/2); the model's angles  *)
(* are multiples of PI/4 of small magnitude, on which no operation rounds. *)
(***************************************************************************)
EXTENDS Integers, Sequences, FiniteSets, TLC

VARIABLES
    pc,         \* "start" before the call, then the name of the call made
    segment,    \* the segment argument (epa of intersect_segment_with_segment)
    epb,        \* the second segment of intersect_segment_with_segment
    rect,       \* the Rect argument (the canvas of linear_clamp)
    pt,         \* the point of a point-and-angle line
    angle,      \* the angle argument (val of angle_shift)
    base,       \* the base argument of angle_shift
    sa,         \* the first argument of same_sign
    sb,         \* the second argument of same_sign
    ret,        \* what the last call returned
    first,      \* what the call before the last returned
    cast        \* what this build makes of an out-of-range `f32 as u32`

vars == <<pc, segment, epb, rect, pt, angle, base, sa, sb, ret, first, cast>>

\* The value of a variable the specification at hand does not use.
Unused == <<>>

----------------------------------------------------------------------------
(* f32 / f64 values and their arithmetic *)

Abs(n) == IF n < 0 THEN -n ELSE n

Sgn(n) == IF n < 0 THEN -1 ELSE IF n > 0 THEN 1 ELSE 0

\* An operation below takes each operand by value, as x \in {a}: the operand's
\* expression is worked out once, however often the operation looks at it.
RECURSIVE GCD(_, _)
GCD(m, n) == IF n = 0 THEN m ELSE CHOOSE g \in {GCD(n, k) : k \in {m % n}} : TRUE

\* The float n/d, d > 0, in lowest terms.
Norm(n, d) ==
    CHOOSE v \in {<<x \div g, y \div g>> :
                      x \in {n}, y \in {d}, g \in {GCD(Abs(n), d)}} : TRUE

\* The float of an integer literal.
I(n) == <<n, 1>>

PosInf == <<1, 0>>
NegInf == <<-1, 0>>
NaN == <<0, 0>>

is_nan(a) == a = NaN
is_infinite(a) == a = PosInf \/ a = NegInf
IsFinite(a) == a[2] # 0
IsZero(a) == a[2] # 0 /\ a[1] = 0

FNeg(a) == CHOOSE v \in {<<-x[1], x[2]>> : x \in {a}} : TRUE

\* The number of bits of the significand of an f32.
MantissaBits == 24

\* The largest k for which a denominator 2^k is held.
MaxShift == 30

\* The spacing between neighbouring f32 values at the whole number n >= 0.
RECURSIVE Ulp(_)
Ulp(n) ==
    IF n < 2 ^ MantissaBits THEN 1
    ELSE CHOOSE u \in {2 * Ulp(h) : h \in {n \div 2}} : TRUE

\* The binary expansion of (q + r/d) / 2^k carried on, bit by bit, until q has
\* MantissaBits bits, nothing remains (r = 0) or k reaches MaxShift: <<q, r, k>>.
RECURSIVE Expand(_, _, _, _)
Expand(q, r, d, k) ==
    IF q >= 2 ^ (MantissaBits - 1) \/ r = 0 \/ k = MaxShift THEN <<q, r, k>>
    ELSE CHOOSE e \in {Expand(2 * q2 + bit, 2 * r2 - bit * d2, d2, k2 + 1) :
                           q2 \in {q}, r2 \in {r}, d2 \in {d}, k2 \in {k},
                           bit \in {IF 2 * r >= d THEN 1 ELSE 0}} : TRUE

\* The f32 nearest to the whole number q0 + r0/d, q0 >= 2^MantissaBits, of
\* the sign sgn.
RoundWhole(sgn, q0, r0) ==
    CHOOSE v \in {<<sgn * u * (IF \/ 2 * (q0 % u) > u
                                  \/ 2 * (q0 % u) = u
                                        /\ (r0 > 0 \/ (q0 \div u) % 2 = 1)
                               THEN (q0 \div u) + 1
                               ELSE q0 \div u), 1>> : u \in {Ulp(q0)}} : TRUE

\* The f32 nearest to the finite or non-finite value a, ties to even.  A value
\* too small for its significand to be held (below 2^-7 and not a short binary
\* fraction) is left as it is.
RoundF32(a) ==
    CHOOSE v \in
        {IF x[2] = 0 \/ x[1] = 0 THEN x
         ELSE IF Abs(x[1]) \div x[2] >= 2 ^ MantissaBits
         THEN RoundWhole(Sgn(x[1]), Abs(x[1]) \div x[2], Abs(x[1]) % x[2])
         ELSE CHOOSE w \in
                  {IF e[2] = 0 \/ e[1] < 2 ^ (MantissaBits - 1) THEN x
                   ELSE Norm(Sgn(x[1]) * (IF \/ 2 * e[2] > x[2]
                                             \/ 2 * e[2] = x[2] /\ e[1] % 2 = 1
                                          THEN e[1] + 1
                                          ELSE e[1]),
                             2 ^ e[3]) :
                       e \in {Expand(Abs(x[1]) \div x[2], Abs(x[1]) % x[2],
                                     x[2], 0)}} : TRUE :
             x \in {a}} : TRUE

\* The exact sum of two floats (over the least common denominator).
QAdd(a, b) ==
    CHOOSE v \in
        {IF IsFinite(x) /\ IsFinite(y)
         THEN CHOOSE w \in {Norm(x[1] * (y[2] \div g) + y[1] * (x[2] \div g),
                                 (x[2] \div g) * y[2]) :
                                g \in {GCD(x[2], y[2])}} : TRUE
         ELSE IF is_nan(x) \/ is_nan(y) THEN NaN
         ELSE IF ~IsFinite(x) /\ ~IsFinite(y) THEN (IF x = y THEN x ELSE NaN)
         ELSE IF ~IsFinite(x) THEN x ELSE y :
             x \in {a}, y \in {b}} : TRUE

\* The exact product of two floats (common factors are cancelled before the
\* numerators are multiplied).
QMul(a, b) ==
    CHOOSE v \in
        {IF IsFinite(x) /\ IsFinite(y)
         THEN CHOOSE w \in {Norm((x[1] \div g) * (y[1] \div h),
                                 (x[2] \div h) * (y[2] \div g)) :
                                g \in {GCD(Abs(x[1]), y[2])},
                                h \in {GCD(Abs(y[1]), x[2])}} : TRUE
         ELSE IF is_nan(x) \/ is_nan(y) \/ IsZero(x) \/ IsZero(y) THEN NaN
         ELSE <<Sgn(x[1]) * Sgn(y[1]), 0>> :
             x \in {a}, y \in {b}} : TRUE

\* The exact difference of two floats.
QSub(a, b) == QAdd(a, FNeg(b))

FAdd(a, b) == RoundF32(QAdd(a, b))

FSub(a, b) == FAdd(a, FNeg(b))

FMul(a, b) == RoundF32(QMul(a, b))

\* The exact quotient of two floats.
QDiv(a, b) ==
    CHOOSE v \in
        {IF is_nan(x) \/ is_nan(y) THEN NaN
         ELSE IF IsFinite(x) /\ IsFinite(y)
         THEN IF y[1] # 0 THEN QMul(x, <<y[2] * Sgn(y[1]), Abs(y[1])>>)
              ELSE IF x[1] = 0 THEN NaN ELSE <<Sgn(x[1]), 0>>
         ELSE IF IsFinite(x) THEN I(0)
         ELSE IF IsFinite(y) THEN <<x[1] * (IF y[1] < 0 THEN -1 ELSE 1), 0>>
         ELSE NaN :
             x \in {a}, y \in {b}} : TRUE

FDiv(a, b) == RoundF32(QDiv(a, b))

\* a == b: false whenever either is NaN.
FEq(a, b) == \E x \in {a}, y \in {b} : ~is_nan(x) /\ ~is_nan(y) /\ x = y

FLt(a, b) ==
    \E x \in {a}, y \in {b} :
        /\ ~is_nan(x)
        /\ ~is_nan(y)
        /\ IF IsFinite(x) /\ IsFinite(y)
           THEN \E g \in {GCD(x[2], y[2])} :
                    x[1] * (y[2] \div g) < y[1] * (x[2] \div g)
           ELSE x # y /\ (x = NegInf \/ y = PosInf)

FLe(a, b) == \E x \in {a}, y \in {b} : FLt(x, y) \/ FEq(x, y)
FGt(a, b) == FLt(b, a)
FGe(a, b) == FLe(b, a)

\* The integer part of a finite float (rounding toward zero), as `as` takes it.
Trunc(a) == CHOOSE t \in {Sgn(x[1]) * (Abs(x[1]) \div x[2]) : x \in {a}} : TRUE

\* The float remainder a % w of Rust: a - w * trunc(a / w), the sign of a,
\* which is exact.
FRem(a, w) ==
    CHOOSE v \in
        {IF ~IsFinite(x) \/ is_nan(y) \/ IsZero(y) THEN NaN
         ELSE IF ~IsFinite(y) THEN x
         ELSE QAdd(x, FNeg(QMul(y, I(Trunc(QDiv(x, y)))))) :
             x \in {a}, y \in {w}} : TRUE

----------------------------------------------------------------------------
(* geometry/mod.rs: Point and Rect *)

Point(x, y) == [x |-> x, y |-> y]

\* Point's derived PartialEq: both coordinates compare equal.
PointEq(p, q) == FEq(p.x, q.x) /\ FEq(p.y, q.y)

contains_x(r, x) == FGe(x, r.left) /\ FLt(x, r.right)

contains_y(r, y) == FGe(y, r.top) /\ FLt(y, r.bottom)

----------------------------------------------------------------------------
(* Results *)

None == <<"None">>
Some(v) == <<"Some", v>>
Panic(msg) == <<"Panic", msg>>

IsSome(r) == r[1] = "Some"
IsNone(r) == r[1] = "None"
IsPanic(r) == r[1] = "Panic"

----------------------------------------------------------------------------
(* utilities.rs *)

\* clamped: the assert, then the value restricted to [lower_bound, upper_bound].
clamped(value, lower_bound, upper_bound) ==
    IF ~FLe(lower_bound, upper_bound) THEN Panic("assertion failed")
    ELSE IF FLt(value, lower_bound) THEN lower_bound
    ELSE IF FGt(value, upper_bound) THEN upper_bound
    ELSE value

\* A variant of ordered that returns its arguments as they come.
ordered_as_given(a, b) == <<a, b>>

ordered(a, b) == IF FLe(a, b) THEN <<a, b>> ELSE <<b, a>>

\* A variant of clipped that puts the pair in order before it clamps.
clipped_in_order(values, lower_bound, upper_bound) ==
    IF ~FLe(lower_bound, upper_bound) THEN Panic("assertion failed")
    ELSE IF \/ FGe(values[1], lower_bound) /\ FLe(values[1], upper_bound)
            \/ FGe(values[2], lower_bound) /\ FLe(values[2], upper_bound)
    THEN Some(<<clamped(ordered(values[1], values[2])[1], lower_bound, upper_bound),
                clamped(ordered(values[1], values[2])[2], lower_bound, upper_bound)>>)
    ELSE None

clipped(values, lower_bound, upper_bound) ==
    IF ~FLe(lower_bound, upper_bound) THEN Panic("assertion failed")
    ELSE IF \/ FGe(values[1], lower_bound) /\ FLe(values[1], upper_bound)
            \/ FGe(values[2], lower_bound) /\ FLe(values[2], upper_bound)
    THEN Some(<<clamped(values[1], lower_bound, upper_bound),
                clamped(values[2], lower_bound, upper_bound)>>)
    ELSE None

\* The build's choices for `a as u32` when a is outside 0 ..= u32::MAX: "saturate"
\* is the cast as Rust defines it (negative and NaN to 0, too large to u32::MAX);
\* "wrap" is what the cast, undefined when this code was written, compiled to on
\* x86-64: the low 32 bits of the value converted to a 64-bit integer.
CastModes == {"saturate", "wrap"}

\* 2^31 - 1, the largest value of bits 0 .. 30 of a u32.
Low31Max == 2147483647

\* a as u32, as bit 31 (hi) and bits 0 .. 30 (lo).
AsU32(a) ==
    IF ~IsFinite(a)
    THEN IF cast = "saturate" /\ a = PosInf THEN [hi |-> 1, lo |-> Low31Max]
         ELSE [hi |-> 0, lo |-> 0]
    ELSE LET t == Trunc(a)
         IN  IF t >= 0 THEN [hi |-> 0, lo |-> t]
             ELSE IF cast = "saturate" THEN [hi |-> 0, lo |-> 0]
             ELSE [hi |-> 1, lo |-> (Low31Max + t) + 1]

\* Bit 31 of x ^ y, the sign of (x ^ y) as i32.
XorSignBit(x, y) == (x.hi + y.hi) % 2

\* ((a as u32) ^ (b as u32)) as i32 >= 0
same_sign(a, b) == XorSignBit(AsU32(a), AsU32(b)) = 0


----------------------------------------------------------------------------
(* geometry/line.rs: clip_segment_to_rect *)

\* One edge's constraint: t narrowed by t_edge when t_edge lies in [t.0, t.1];
\* lower says whether the edge bounds t from below.
\* A variant that takes t_edge only when it lies strictly inside (t.0, t.1).
Constrain_strict(t, t_edge, lower) ==
    IF FGt(t_edge, t[1]) /\ FLt(t_edge, t[2])
    THEN IF lower THEN <<t_edge, t[2]>> ELSE <<t[1], t_edge>>
    ELSE t

\* A variant of Constrain that lost the test against t.1.
Constrain_unbounded_above(t, t_edge, lower) ==
    IF FGe(t_edge, t[1])
    THEN IF lower THEN <<t_edge, t[2]>> ELSE <<t[1], t_edge>>
    ELSE t

Constrain(t, t_edge, lower) ==
    IF FGe(t_edge, t[1]) /\ FLe(t_edge, t[2])
    THEN IF lower THEN <<t_edge, t[2]>> ELSE <<t[1], t_edge>>
    ELSE t

clip_segment_to_rect(seg, r) ==
    LET xa == seg[1].x
        ya == seg[1].y
        xb == seg[2].x
        yb == seg[2].y
        dx == FSub(xb, xa)
        dy == FSub(yb, ya)
    IN  IF FEq(dx, I(0))
        THEN IF FGe(xa, r.left) /\ FLt(xa, r.right)
             THEN LET c == clipped(<<ya, yb>>, r.top, r.bottom)
                  IN  IF IsSome(c)
                      THEN Some(<<Point(xa, c[2][1]), Point(xa, c[2][2])>>)
                      ELSE c
             ELSE None
        ELSE IF FEq(dy, I(0))
        THEN IF FGe(ya, r.top) /\ FLt(ya, r.bottom)
             THEN LET c == clipped(<<xa, xb>>, r.left, r.right)
                  IN  IF IsSome(c)
                      THEN Some(<<Point(c[2][1], ya), Point(c[2][2], ya)>>)
                      ELSE c
             ELSE None
        ELSE
        LET t0 == <<I(0), I(1)>>
            t1 == Constrain(t0, FDiv(FSub(r.top, ya), dy), FLe(FNeg(dy), I(0)))
            t2 == Constrain(t1, FDiv(FSub(r.left, xa), dx), FLe(FNeg(dx), I(0)))
            t3 == Constrain(t2, FDiv(FSub(r.right, xa), dx), FLe(dx, I(0)))
            t  == Constrain(t3, FDiv(FSub(r.bottom, ya), dy), FLe(dy, I(0)))
        IN  IF FLe(t[1], t[2])
            THEN Some(<<Point(FAdd(xa, FMul(dx, t[1])), FAdd(ya, FMul(dy, t[1]))),
                        Point(FAdd(xa, FMul(dx, t[2])), FAdd(ya, FMul(dy, t[2])))>>)
            ELSE None

----------------------------------------------------------------------------
(* geometry/line.rs: Intersection and intersect_segment_with_segment *)

At(p) == <<"At", p>>
Colinear == <<"Colinear">>

IsAt(r) == r[1] = "At"
IsColinear(r) == r[1] = "Colinear"

\* a * x + b * y + c
LineEq(a, b, c, p) == FAdd(FAdd(FMul(a, p.x), FMul(b, p.y)), c)

\* The coefficients <<a, b, c>> of the line a * x + b * y + c = 0 through s.
LineCoefficients(s) ==
    <<FSub(s[2].y, s[1].y),
      FSub(s[1].x, s[2].x),
      FSub(FMul(s[2].x, s[1].y), FMul(s[1].x, s[2].y))>>

intersect_segment_with_segment(epa, epb_) ==
    LET l1 == LineCoefficients(epa)
        a1 == l1[1]
        b1 == l1[2]
        c1 == l1[3]
        ab_r0 == LineEq(a1, b1, c1, epb_[1])
        ab_r1 == LineEq(a1, b1, c1, epb_[2])
        l2 == LineCoefficients(epb_)
        a2 == l2[1]
        b2 == l2[2]
        c2 == l2[3]
        ba_r0 == LineEq(a2, b2, c2, epa[1])
        ba_r1 == LineEq(a2, b2, c2, epa[2])
        denom == FSub(FMul(a1, b2), FMul(a2, b1))
        x == FDiv(FSub(FMul(b1, c2), FMul(b2, c1)), denom)
        y == FDiv(FSub(FMul(a2, c1), FMul(a1, c2)), denom)
    IN  IF FEq(ab_r0, I(0)) /\ FEq(ab_r1, I(0)) THEN Colinear
        ELSE IF same_sign(ab_r0, ab_r1) THEN None
        ELSE IF ~FEq(ba_r0, I(0)) /\ ~FEq(ba_r1, I(0)) /\ same_sign(ba_r0, ba_r1)
        THEN None
        ELSE At(Point(x, y))


----------------------------------------------------------------------------
(* geometry/angle.rs.  Angles are counted in units of PI. *)

\* 2.0 * PI
wrap == I(2)

\* 0.5 * PI
HalfPi == Norm(1, 2)

angle_shift(val, base_) ==
    IF FLt(val, base_)
    THEN FAdd(FSub(base_, FRem(FSub(base_, val), wrap)), wrap)
    ELSE FAdd(base_, FRem(FSub(val, base_), wrap))

Invalid == <<"Invalid">>
Horizontal == <<"Horizontal">>
Vertical == <<"Vertical">>
Normal(theta) == <<"Normal", theta>>

angle_classify(ang) ==
    IF is_infinite(ang) \/ is_nan(ang) THEN Invalid
    ELSE IF FEq(ang, I(0)) THEN Horizontal
    ELSE LET shifted == angle_shift(ang, I(0))
         IN  IF FEq(shifted, HalfPi) THEN Vertical ELSE Normal(shifted)

----------------------------------------------------------------------------
(* geometry/line.rs: intersect_line_with_segment *)

\* theta.sin_cos(), up to the common factor that the quotient m cancels, at the
\* angles where sin as f32 / cos as f32 is exact: 0 and the odd multiples of PI/4.
\* No other theta is drawn; TLC stops should one reach here.
sin_cos(theta) ==
    CASE theta = I(0)       -> <<I(0), I(1)>>
      [] theta = Norm(1, 4) -> <<I(1), I(1)>>
      [] theta = Norm(3, 4) -> <<I(1), I(0 - 1)>>
      [] theta = Norm(5, 4) -> <<I(0 - 1), I(0 - 1)>>
      [] theta = Norm(7, 4) -> <<I(0 - 1), I(1)>>

\* intersect_line_with_segment after its check of the segment.
IntersectLineChecked(p, ang, seg) ==
    LET l == LineCoefficients(seg)
        a == l[1]
        b == l[2]
        c == l[3]
        cls == angle_classify(ang)
    IN  CASE cls = Invalid -> Panic("invalid line angle")
          [] cls = Horizontal ->
                LET o == ordered(seg[1].y, seg[2].y)
                IN  IF FGe(p.y, o[1]) /\ FLe(p.y, o[2]) /\ ~FEq(a, I(0))
                    THEN At(Point(FDiv(FSub(FMul(FNeg(b), p.y), c), a), p.y))
                    ELSE IF FEq(p.y, o[1]) /\ FEq(p.y, o[2]) /\ FEq(a, I(0))
                    THEN Colinear
                    ELSE None
          [] cls = Vertical ->
                LET o == ordered(seg[1].x, seg[2].x)
                IN  IF FGe(p.x, o[1]) /\ FLe(p.x, o[2]) /\ ~FEq(b, I(0))
                    THEN At(Point(p.x, FDiv(FSub(FMul(FNeg(a), p.x), c), b)))
                    ELSE IF FEq(p.x, o[1]) /\ FEq(p.x, o[2]) /\ FEq(b, I(0))
                    THEN Colinear
                    ELSE None
          [] cls[1] = "Normal" ->
                LET sc == sin_cos(cls[2])
                    m == FDiv(sc[1], sc[2])
                    y_0 == FSub(p.y, FMul(m, p.x))
                    r0 == FSub(FAdd(FMul(m, seg[1].x), y_0), seg[1].y)
                    r1 == FSub(FAdd(FMul(m, seg[2].x), y_0), seg[2].y)
                    x == FDiv(FSub(FMul(FNeg(b), y_0), c), FAdd(a, FMul(m, b)))
                    y == FAdd(FMul(m, x), y_0)
                IN  IF FEq(r0, I(0)) /\ FEq(r1, I(0)) THEN Colinear
                    ELSE IF same_sign(r0, r1) THEN None
                    ELSE At(Point(x, y))

\* A build of intersect_line_with_segment that lost the check of the segment.
intersect_line_with_segment_unchecked(p, ang, seg) ==
    IntersectLineChecked(p, ang, seg)

intersect_line_with_segment(p, ang, seg) ==
    IF PointEq(seg[1], seg[2]) THEN Panic("invalid segment")
    ELSE IntersectLineChecked(p, ang, seg)

----------------------------------------------------------------------------
(* geometry/line.rs: extend_segment_to_rect *)

\* The terse segment constructor s.
s(x1, y1, x2, y2) == Some(<<Point(x1, y1), Point(x2, y2)>>)

\* extend_segment_to_rect after its check of the segment.
ExtendChecked(seg, r) ==
    LET ea == seg[1]
        eb == seg[2]
        l == LineCoefficients(seg)
        a == l[1]
        b == l[2]
        c == l[3]
    IN  IF FEq(a, I(0)) /\ contains_y(r, eb.y) THEN s(r.left, eb.y, r.right, eb.y)
        ELSE IF FEq(b, I(0)) /\ contains_x(r, eb.x) THEN s(eb.x, r.top, eb.x, r.bottom)
        ELSE IF FEq(a, I(0)) \/ FEq(b, I(0)) THEN None
        ELSE
        LET tx == FDiv(FSub(FMul(FNeg(b), r.top), c), a)
            bx == FDiv(FSub(FMul(FNeg(b), r.bottom), c), a)
            ly == FDiv(FSub(FMul(FNeg(a), r.left), c), b)
            ry == FDiv(FSub(FMul(FNeg(a), r.right), c), b)
            txi == contains_x(r, tx)
            bxi == contains_x(r, bx)
            lyi == contains_y(r, ly) /\ ~FEq(tx, ly) /\ ~FEq(bx, ly)
            ryi == contains_y(r, ry) /\ ~FEq(tx, ry) /\ ~FEq(bx, ry)
        IN  IF txi /\ bxi THEN s(tx, r.top, bx, r.bottom)
            ELSE IF txi /\ lyi THEN s(tx, r.top, r.left, ly)
            ELSE IF txi /\ ryi THEN s(tx, r.top, r.right, ry)
            ELSE IF bxi /\ lyi THEN s(bx, r.bottom, r.left, ly)
            ELSE IF bxi /\ ryi THEN s(bx, r.bottom, r.right, ry)
            ELSE IF lyi /\ ryi THEN s(r.left, ly, r.right, ry)
            ELSE IF txi
            THEN IF FEq(tx, ly) THEN s(r.left, r.top, r.left, r.top)
                 ELSE s(r.right, r.top, r.right, r.top)
            ELSE IF bxi
            THEN IF FEq(bx, ly) THEN s(r.left, r.bottom, r.left, r.bottom)
                 ELSE s(r.right, r.bottom, r.right, r.bottom)
            ELSE None

\* A variant that returns the segment as it is, not extended to the Rect.
extend_segment_to_rect_unextended(seg, r) ==
    IF PointEq(seg[1], seg[2])
    THEN Panic("segment endpoints do not determine a unique line")
    ELSE Some(seg)

extend_segment_to_rect(seg, r) ==
    IF PointEq(seg[1], seg[2])
    THEN Panic("segment endpoints do not determine a unique line")
    ELSE ExtendChecked(seg, r)

----------------------------------------------------------------------------
(* geometry/line.rs: RectEdgeIter, RectEdgeIntersectIter and clip_line_to_rect *)

\* The edges RectEdgeIter yields, in its order: top, left, right, bottom.
RectEdgeIter(r) ==
    << <<Point(r.left, r.top), Point(r.right, r.top)>>,
       <<Point(r.left, r.top), Point(r.left, r.bottom)>>,
       <<Point(r.right, r.top), Point(r.right, r.bottom)>>,
       <<Point(r.left, r.bottom), Point(r.right, r.bottom)>> >>

\* The loop of clip_line_to_rect from edge number edge_num on, with `save` as
\* it stands; RectEdgeIntersectIter skips the edges whose intersection is None.
\* A panic of intersect_line_with_segment ends the call.
RECURSIVE ClipLineLoop(_, _, _, _, _)
ClipLineLoop(p, ang, r, edge_num, save) ==
    IF edge_num > 4
    THEN IF IsNone(save) THEN None ELSE Some(<<save[2], save[2]>>)
    ELSE CHOOSE result \in
             {IF IsPanic(next) THEN next
              ELSE IF IsColinear(next) THEN Some(edge)
              ELSE IF IsAt(next)
              THEN IF IsNone(save)
                   THEN ClipLineLoop(p, ang, r, edge_num + 1, Some(next[2]))
                   ELSE IF ~PointEq(save[2], next[2])
                   THEN Some(<<save[2], next[2]>>)
                   ELSE ClipLineLoop(p, ang, r, edge_num + 1, save)
              ELSE ClipLineLoop(p, ang, r, edge_num + 1, save) :
                  edge \in {RectEdgeIter(r)[edge_num]},
                  next \in {intersect_line_with_segment(
                                p, ang, RectEdgeIter(r)[edge_num])}} : TRUE

clip_line_to_rect(p, ang, r) == ClipLineLoop(p, ang, r, 1, None)


----------------------------------------------------------------------------
(* lib.rs: Position, Canvas and Canvas::linear_clamp.  Coordinates are i32, *)
(* here integers; a canvas is the record of its left, right, top and bottom *)

Position(x, y) == [x |-> x, y |-> y]

x_order(pair) == IF pair[1].x > pair[2].x THEN <<pair[2], pair[1]>> ELSE pair

y_order(pair) == IF pair[1].y > pair[2].y THEN <<pair[2], pair[1]>> ELSE pair

Canvas_contains_x(cv, x) == x >= cv.left /\ x <= cv.right

Canvas_contains_y(cv, y) == y >= cv.top /\ y <= cv.bottom

\* utilities::clamp: the value restricted to [lower, upper].
clamp(value, lower, upper) ==
    IF value < lower THEN lower ELSE IF value > upper THEN upper ELSE value

\* n as f32
AsF32(n) == RoundF32(I(n))

\* a as i32, for a finite a within the range of i32: rounding toward zero.
AsI32(a) == Trunc(a)

\* The horizontal (rise == 0) and vertical (run == 0) branches of linear_clamp
\* on the x-ordered endpoints a and b.
linear_clamp_aligned(cv, a, b, horizontal) ==
    IF horizontal
    THEN IF \/ ~Canvas_contains_y(cv, a.y)
            \/ ~Canvas_contains_x(cv, a.x) /\ ~Canvas_contains_x(cv, b.x)
         THEN None
         ELSE Some(<<Position(clamp(a.x, cv.left, cv.right), a.y),
                     Position(clamp(b.x, cv.left, cv.right), b.y)>>)
    ELSE IF \/ ~Canvas_contains_x(cv, a.x)
            \/ ~Canvas_contains_y(cv, a.y) /\ ~Canvas_contains_y(cv, b.y)
         THEN None
         ELSE Some(<<Position(a.x, clamp(a.y, cv.top, cv.bottom)),
                     Position(b.x, clamp(b.y, cv.top, cv.bottom))>>)

linear_clamp(cv, seg) ==
    LET o == x_order(seg)
        a == o[1]
        b == o[2]
        rise == b.y - a.y
        run == b.x - a.x
    IN  IF rise = 0 THEN linear_clamp_aligned(cv, a, b, TRUE)
        ELSE IF run = 0 THEN linear_clamp_aligned(cv, a, b, FALSE)
        ELSE
        LET slope == FDiv(AsF32(rise), AsF32(run))
            a1 == IF a.x < cv.left
                  THEN Position(cv.left,
                                a.y + AsI32(FMul(AsF32(cv.left - a.x), slope)))
                  ELSE a
            b1 == IF b.x > cv.right
                  THEN Position(cv.right,
                                b.y - AsI32(FMul(AsF32(b.x - cv.right), slope)))
                  ELSE b
            p == y_order(<<a1, b1>>)
            a2 == IF p[1].y < cv.top
                  THEN Position(p[1].x + AsI32(FDiv(AsF32(cv.top - p[1].y), slope)),
                                cv.top)
                  ELSE p[1]
            b2 == IF p[2].y > cv.bottom
                  THEN Position(p[2].x - AsI32(FDiv(AsF32(p[2].y - cv.bottom), slope)),
                                cv.bottom)
                  ELSE p[2]
        IN  Some(<<a2, b2>>)

----------------------------------------------------------------------------
(* geometry/line_intersect.rs: line_intersect and line_segment_intersect on  *)
(* Positions.  The arithmetic is i32: an operation whose result does not fit *)
(* panics in a build that checks overflow and wraps (mod 2^32) in one that   *)
(* does not.  A checked value is <<v, o>>: the wrapped value v, and o, TRUE  *)
(* iff an operation on the way to it overflowed.                             *)

\* i32::MAX and i32::MIN
MaxI32 == 2147483647
MinI32 == 0 - MaxI32 - 1

\* The builds: overflow checks on (panic) or off (wrap).
Builds == {"checked", "wrapping"}

\* a + b in i32, wrapped.
WAdd(a, b) ==
    CHOOSE v \in {IF x > 0 /\ y > 0 /\ x > MaxI32 - y
                  THEN (x - MaxI32 - 1) + (y - MaxI32 - 1)
                  ELSE IF x < 0 /\ y < 0 /\ x < MinI32 - y
                  THEN (x + MaxI32 + 1) + (y + MaxI32 + 1)
                  ELSE x + y : x \in {a}, y \in {b}} : TRUE

AddOverflows(a, b) ==
    \E x \in {a}, y \in {b} :
        \/ x > 0 /\ y > 0 /\ x > MaxI32 - y
        \/ x < 0 /\ y < 0 /\ x < MinI32 - y

\* -a in i32, wrapped: i32::MIN is its own negation.
WNeg(a) == CHOOSE v \in {IF x = MinI32 THEN x ELSE 0 - x : x \in {a}} : TRUE

NegOverflows(a) == a = MinI32

\* a * b in i32, wrapped: a * b = 2 * (a * (b / 2)) + (b mod 2) * a, mod 2^32.
RECURSIVE WMul(_, _)
WMul(a, b) ==
    CHOOSE v \in
        {IF y = 0 THEN 0
         ELSE IF y = MinI32 THEN (IF x % 2 = 0 THEN 0 ELSE MinI32)
         ELSE IF y < 0 THEN WNeg(WMul(x, 0 - y))
         ELSE CHOOSE w \in {IF y % 2 = 0 THEN WAdd(h, h) ELSE WAdd(WAdd(h, h), x) :
                                h \in {WMul(x, y \div 2)}} : TRUE :
             x \in {a}, y \in {b}} : TRUE

\* a * b does not fit i32: the magnitudes multiply to 2^31 or more, unless the
\* product is i32::MIN itself.
MulOverflows(a, b) ==
    \E x \in {a}, y \in {b} :
        /\ x # 0 /\ y # 0
        /\ IF x = MinI32 THEN y # 1
           ELSE IF y = MinI32 THEN x # 1
           ELSE /\ Abs(x) > MaxI32 \div Abs(y)
                /\ ~(/\ Sgn(x) # Sgn(y)
                     /\ Abs(x) = MaxI32 \div Abs(y) + 1
                     /\ MaxI32 % Abs(y) = Abs(y) - 1)

\* a / b in i32, b # 0: the quotient rounded toward zero; i32::MIN / -1 does
\* not fit (and panics in every build).
WDiv(a, b) ==
    CHOOSE v \in
        {IF x = MinI32
         THEN (IF y = 0 - 1 THEN x
               ELSE IF y = MinI32 THEN 1
               ELSE Sgn(y) * (0 - ((MaxI32 \div Abs(y))
                                   + (IF MaxI32 % Abs(y) = Abs(y) - 1 THEN 1 ELSE 0))))
         ELSE IF y = MinI32 THEN 0
         ELSE Sgn(x) * Sgn(y) * (Abs(x) \div Abs(y)) : x \in {a}, y \in {b}} : TRUE

DivOverflows(a, b) == a = MinI32 /\ b = 0 - 1

\* An i32 that came from no operation.
Lift(n) == <<n, FALSE>>

CAdd(a, b) ==
    CHOOSE v \in {<<WAdd(x[1], y[1]), x[2] \/ y[2] \/ AddOverflows(x[1], y[1])>> :
                      x \in {a}, y \in {b}} : TRUE

CNeg(a) == CHOOSE v \in {<<WNeg(x[1]), x[2] \/ NegOverflows(x[1])>> : x \in {a}} : TRUE

\* a - b overflows exactly when the exact difference does not fit.
CSub(a, b) ==
    CHOOSE v \in
        {IF y[1] = MinI32
         THEN <<WAdd(WAdd(x[1], MaxI32), 1), x[2] \/ y[2] \/ x[1] >= 0>>
         ELSE <<WAdd(x[1], 0 - y[1]),
                x[2] \/ y[2] \/ AddOverflows(x[1], 0 - y[1])>> :
             x \in {a}, y \in {b}} : TRUE

CMul(a, b) ==
    CHOOSE v \in {<<WMul(x[1], y[1]), x[2] \/ y[2] \/ MulOverflows(x[1], y[1])>> :
                      x \in {a}, y \in {b}} : TRUE

CDiv(a, b) ==
    CHOOSE v \in {<<WDiv(x[1], y[1]), x[2] \/ y[2] \/ DivOverflows(x[1], y[1])>> :
                      x \in {a}, y \in {b}} : TRUE

\* LineIntersect
LineIntersectPoint(p) == <<"Point", p>>
LineIntersectColinear == <<"Colinear">>
LineIntersectNone == <<"None">>

IsLineIntersectPoint(r) == r[1] = "Point"

\* The coefficients <<a, b, c>> of a * x + b * y + c = 0 for the line of ep.
IntCoefficients(ep) ==
    <<CSub(Lift(ep[2].y), Lift(ep[1].y)),
      CSub(Lift(ep[1].x), Lift(ep[2].x)),
      CSub(CMul(Lift(ep[2].x), Lift(ep[1].y)), CMul(Lift(ep[1].x), Lift(ep[2].y)))>>

\* a * p.x + b * p.y + c for the coefficients l.
IntLineEq(l, p) ==
    CAdd(CAdd(CMul(l[1], Lift(p.x)), CMul(l[2], Lift(p.y))), l[3])

\* same_sign on i32: "true iff both values are strictly positive or both
\* strictly negative".
same_sign_i32(a, b) == (a > 0 /\ b > 0) \/ (a < 0 /\ b < 0)

\* if num < 0 { num - offset } else { num + offset } / denom, with
\* offset = if denom < 0 { - denom / 2 } else { denom / 2 }.
RoundedQuotient(num, denom) ==
    CHOOSE v \in
        {CDiv(IF n[1] < 0 THEN CSub(n, offset) ELSE CAdd(n, offset), d) :
             n \in {num}, d \in {denom},
             offset \in {IF denom[1] < 0
                         THEN CDiv(CNeg(denom), Lift(2))
                         ELSE CDiv(denom, Lift(2))}} : TRUE

\* The end of both routines, from denom on: l1 and l2 are the coefficients of
\* the two lines and seen is TRUE iff an operation before has overflowed.
IntersectionPoint(build, l1, l2, seen) ==
    LET denom == CSub(CMul(l1[1], l2[2]), CMul(l2[1], l1[2]))
        x == RoundedQuotient(CSub(CMul(l1[2], l2[3]), CMul(l2[2], l1[3])), denom)
        y == RoundedQuotient(CSub(CMul(l2[1], l1[3]), CMul(l1[1], l2[3])), denom)
    IN  IF build = "checked" /\ (seen \/ denom[2])
        THEN Panic("arithmetic overflow")
        ELSE IF denom[1] = 0 THEN LineIntersectColinear
        ELSE IF \/ build = "checked" /\ (x[2] \/ y[2])
                \/ denom[1] = 0 - 1 /\ (x[1] = MinI32 \/ y[1] = MinI32)
        THEN Panic("arithmetic overflow")
        ELSE LineIntersectPoint(Position(x[1], y[1]))

line_intersect(build, epa, epb_) ==
    LET l1 == IntCoefficients(epa)
        l2 == IntCoefficients(epb_)
    IN  IntersectionPoint(build, l1, l2,
            \/ l1[3][2] \/ l2[3][2]
            \/ IntLineEq(l1, epb_[1])[2] \/ IntLineEq(l1, epb_[2])[2]
            \/ IntLineEq(l2, epa[1])[2] \/ IntLineEq(l2, epa[2])[2])

line_segment_intersect(build, epa, epb_) ==
    LET l1 == IntCoefficients(epa)
        r3 == IntLineEq(l1, epb_[1])
        r4 == IntLineEq(l1, epb_[2])
        l2 == IntCoefficients(epb_)
        r1 == IntLineEq(l2, epa[1])
        r2 == IntLineEq(l2, epa[2])
    IN  IF build = "checked" /\ (r3[2] \/ r4[2]) THEN Panic("arithmetic overflow")
        ELSE IF r3[1] # 0 /\ r4[1] # 0 /\ same_sign_i32(r3[1], r4[1])
        THEN LineIntersectNone
        ELSE IF build = "checked" /\ (r1[2] \/ r2[2]) THEN Panic("arithmetic overflow")
        ELSE IF r1[1] # 0 /\ r2[1] # 0 /\ same_sign_i32(r1[1], r2[1])
        THEN LineIntersectNone
        ELSE IntersectionPoint(build, l1, l2, FALSE)

----------------------------------------------------------------------------
(* The arguments the specifications draw *)

\* Coordinates run over MinCoord .. MaxCoord; a Rect's bounds over 0 .. MaxCoord - 1,
\* so that a segment can start and end on every side of every Rect.
MaxCoord == 3

MinCoord == 0 - 1

Coords == {I(n) : n \in MinCoord .. MaxCoord}

Points == {Point(x, y) : x \in Coords, y \in Coords}

Segments == Points \X Points

RectBounds == {I(n) : n \in 0 .. MaxCoord - 1}

\* Every Rect with left <= right and top <= bottom.
Rects ==
    {[left |-> l, top |-> t, right |-> r, bottom |-> b] :
        <<l, t, r, b>> \in {q \in RectBounds \X RectBounds \X RectBounds \X RectBounds :
                                FLe(q[1], q[3]) /\ FLe(q[2], q[4])}}

----------------------------------------------------------------------------
(* Segment clipping: clip_segment_to_rect, then the result clipped again *)

\* The two orders of a longer segment through the origin, which it reaches at
\* a parameter (3/5 or 2/5) that no f32 holds exactly.
LongSegments ==
    {<<Point(I(3), I(0 - 15)), Point(I(0 - 2), I(10))>>,
     <<Point(I(0 - 2), I(10)), Point(I(3), I(0 - 15))>>}

InitClip ==
    /\ pc = "start"
    /\ segment \in Segments \cup LongSegments
    /\ rect \in Rects
    /\ epb = Unused /\ pt = Unused /\ angle = Unused /\ base = Unused
    /\ sa = Unused /\ sb = Unused
    /\ ret = Unused /\ first = Unused
    /\ cast = Unused

ClipSegment ==
    /\ pc = "start"
    /\ ret' = clip_segment_to_rect(segment, rect)
    /\ pc' = "clip_segment_to_rect"
    /\ UNCHANGED <<segment, epb, rect, pt, angle, base, sa, sb, first, cast>>

\* The caller hands the clipped segment back to clip_segment_to_rect.
ClipAgain ==
    /\ pc = "clip_segment_to_rect"
    /\ IsSome(ret)
    /\ first' = ret
    /\ ret' = clip_segment_to_rect(ret[2], rect)
    /\ pc' = "clip_again"
    /\ UNCHANGED <<segment, epb, rect, pt, angle, base, sa, sb, cast>>

NextClip == ClipSegment \/ ClipAgain

SpecClip == InitClip /\ [][NextClip]_vars

\* The caller asks again with the endpoints of the segment exchanged.
ClipReversed ==
    /\ pc = "clip_segment_to_rect"
    /\ first' = ret
    /\ ret' = clip_segment_to_rect(<<segment[2], segment[1]>>, rect)
    /\ pc' = "clip_reversed"
    /\ UNCHANGED <<segment, epb, rect, pt, angle, base, sa, sb, cast>>

NextReverse == ClipSegment \/ ClipReversed

SpecReverse == InitClip /\ [][NextReverse]_vars

----------------------------------------------------------------------------
(* Segment intersection: intersect_segment_with_segment, then with the         *)
(* arguments exchanged                                                         *)

\* The endpoints of the two segments run over the grid of x in 0 .. MaxPt and
\* y in 0 .. MaxPt - 1: wide enough for two disjoint segments of one line.
MaxPt == 3

GridPoints == {Point(I(x), I(y)) : x \in 0 .. MaxPt, y \in 0 .. MaxPt - 1}

\* A point between the grid's columns: the coordinates are f32, and a segment
\* that ends there has line values that are not whole numbers.
FractionPoints == {Point(Norm(7, 4), I(1))}

GridSegments == (GridPoints \cup FractionPoints) \X (GridPoints \cup FractionPoints)

InitIntersect ==
    /\ pc = "start"
    /\ segment \in GridSegments
    /\ epb \in GridSegments
    /\ cast \in CastModes
    /\ rect = Unused /\ pt = Unused /\ angle = Unused /\ base = Unused
    /\ sa = Unused /\ sb = Unused
    /\ ret = Unused /\ first = Unused

IntersectSegments ==
    /\ pc = "start"
    /\ ret' = intersect_segment_with_segment(segment, epb)
    /\ pc' = "intersect_segment_with_segment"
    /\ UNCHANGED <<segment, epb, rect, pt, angle, base, sa, sb, first, cast>>

\* The caller asks again with the two segments exchanged.
IntersectExchanged ==
    /\ pc = "intersect_segment_with_segment"
    /\ first' = ret
    /\ ret' = intersect_segment_with_segment(epb, segment)
    /\ pc' = "intersect_exchanged"
    /\ UNCHANGED <<segment, epb, rect, pt, angle, base, sa, sb, cast>>

NextIntersect == IntersectSegments \/ IntersectExchanged

SpecIntersect == InitIntersect /\ [][NextIntersect]_vars

----------------------------------------------------------------------------
(* same_sign *)

\* The arguments of same_sign run over the halves k/2 in -MaxSign .. MaxSign.
MaxSign == 2

SignValues == {Norm(k, 2) : k \in (0 - 2 * MaxSign) .. (2 * MaxSign)}

InitSign ==
    /\ pc = "start"
    /\ sa \in SignValues
    /\ sb \in SignValues
    /\ cast \in CastModes
    /\ segment = Unused /\ epb = Unused /\ rect = Unused /\ pt = Unused
    /\ angle = Unused /\ base = Unused
    /\ ret = Unused /\ first = Unused

SameSign ==
    /\ pc = "start"
    /\ ret' = same_sign(sa, sb)
    /\ pc' = "same_sign"
    /\ UNCHANGED <<segment, epb, rect, pt, angle, base, sa, sb, first, cast>>

NextSign == SameSign

SpecSign == InitSign /\ [][NextSign]_vars


----------------------------------------------------------------------------
(* Lines: intersect_line_with_segment on a point, an angle and a segment, and  *)
(* extend_segment_to_rect on a segment and a Rect                              *)

\* The points and the Rect bounds of these calls run over 0 .. MaxLine.
MaxLine == 2

LineCoords == {I(n) : n \in 0 .. MaxLine}

LinePoints == {Point(x, y) : x \in LineCoords, y \in LineCoords}

LineSegments == LinePoints \X LinePoints

LineRects ==
    {[left |-> q[1], top |-> q[2], right |-> q[3], bottom |-> q[4]] :
        q \in {q \in LineCoords \X LineCoords \X LineCoords \X LineCoords :
                  FLe(q[1], q[3]) /\ FLe(q[2], q[4])}}

\* The angles drawn: the non-finite ones, 0, PI/2, the odd multiples of PI/4
\* within a turn, and -PI/4, 2 PI and 9 PI/4, which angle_shift brings to them.
LineAngles ==
    {NaN, PosInf, NegInf}
        \cup {Norm(k, 4) : k \in {0 - 1, 0, 1, 2, 3, 5, 7, 8, 9}}

InitLine ==
    /\ pc = "start"
    /\ segment \in LineSegments
    /\ \/ /\ pt \in LinePoints
          /\ angle \in LineAngles
          /\ cast \in CastModes
          /\ rect = Unused
       \/ /\ rect \in LineRects
          /\ pt = Unused /\ angle = Unused /\ cast = Unused
    /\ epb = Unused /\ base = Unused /\ sa = Unused /\ sb = Unused
    /\ ret = Unused /\ first = Unused

IntersectLine ==
    /\ pc = "start"
    /\ pt # Unused
    /\ ret' = intersect_line_with_segment(pt, angle, segment)
    /\ pc' = "intersect_line_with_segment"
    /\ UNCHANGED <<segment, epb, rect, pt, angle, base, sa, sb, first, cast>>

ExtendSegment ==
    /\ pc = "start"
    /\ rect # Unused
    /\ ret' = extend_segment_to_rect(segment, rect)
    /\ pc' = "extend_segment_to_rect"
    /\ UNCHANGED <<segment, epb, rect, pt, angle, base, sa, sb, first, cast>>

NextLine == IntersectLine \/ ExtendSegment

SpecLine == InitLine /\ [][NextLine]_vars

----------------------------------------------------------------------------
(* Lines: extend_segment_to_rect on two segments of one line and a Rect *)

\* Two points of the line y = x + 1 far from the Rect, with coordinates that
\* an f32 holds exactly but whose products it does not.
FarPoints == {Point(I(4097), I(4098)), Point(I(8197), I(8198))}

ExtendSegments == (LinePoints \cup FarPoints) \X (LinePoints \cup FarPoints)

\* p lies on the infinite line through the endpoints of seg (in exact arithmetic).
OnLineOf(seg, p) ==
    QMul(QAdd(seg[2].x, FNeg(seg[1].x)), QAdd(p.y, FNeg(seg[1].y)))
        = QMul(QAdd(seg[2].y, FNeg(seg[1].y)), QAdd(p.x, FNeg(seg[1].x)))

\* seg2 is a segment of the infinite line through the endpoints of seg.
OnSameLine(seg, seg2) == OnLineOf(seg, seg2[1]) /\ OnLineOf(seg, seg2[2])

\* The arguments: a segment that determines a line, a second segment that
\* determines the same line, and a Rect.
InitExtend ==
    /\ pc = "start"
    /\ segment \in ExtendSegments
    /\ ~PointEq(segment[1], segment[2])
    /\ epb \in ExtendSegments
    /\ ~PointEq(epb[1], epb[2])
    /\ OnSameLine(segment, epb)
    /\ rect \in LineRects
    /\ pt = Unused /\ angle = Unused /\ cast = Unused
    /\ base = Unused /\ sa = Unused /\ sb = Unused
    /\ ret = Unused /\ first = Unused

ExtendFirst ==
    /\ pc = "start"
    /\ ret' = extend_segment_to_rect(segment, rect)
    /\ pc' = "extend_first"
    /\ UNCHANGED <<segment, epb, rect, pt, angle, base, sa, sb, first, cast>>

ExtendOther ==
    /\ pc = "extend_first"
    /\ first' = ret
    /\ ret' = extend_segment_to_rect(epb, rect)
    /\ pc' = "extend_other"
    /\ UNCHANGED <<segment, epb, rect, pt, angle, base, sa, sb, cast>>

NextExtend == ExtendFirst \/ ExtendOther

SpecExtend == InitExtend /\ [][NextExtend]_vars

----------------------------------------------------------------------------
(* Lines: clip_line_to_rect on a point, an angle and a Rect *)

InitClipLine ==
    /\ pc = "start"
    /\ pt \in LinePoints
    /\ angle \in LineAngles
    /\ rect \in LineRects
    /\ cast \in CastModes
    /\ segment = Unused /\ epb = Unused
    /\ base = Unused /\ sa = Unused /\ sb = Unused
    /\ ret = Unused /\ first = Unused

ClipLine ==
    /\ pc = "start"
    /\ ret' = clip_line_to_rect(pt, angle, rect)
    /\ pc' = "clip_line_to_rect"
    /\ UNCHANGED <<segment, epb, rect, pt, angle, base, sa, sb, first, cast>>

NextClipLine == ClipLine

SpecClipLine == InitClipLine /\ [][NextClipLine]_vars

----------------------------------------------------------------------------
(* A segment and the line through it: extend_segment_to_rect on [A, B], then *)
(* clip_line_to_rect on A and the angle of the direction B - A               *)

\* The angle of the direction (dx, dy), in units of PI, within (-1, 1].
DirectionAngle(dx, dy) ==
    CASE FEq(dy, I(0)) /\ FGt(dx, I(0)) -> I(0)
      [] FEq(dy, I(0)) /\ FLt(dx, I(0)) -> I(1)
      [] FEq(dx, I(0)) /\ FGt(dy, I(0)) -> Norm(1, 2)
      [] FEq(dx, I(0)) /\ FLt(dy, I(0)) -> Norm(0 - 1, 2)
      [] FGt(dx, I(0)) /\ FEq(dy, dx) -> Norm(1, 4)
      [] FGt(dx, I(0)) /\ FEq(dy, FNeg(dx)) -> Norm(0 - 1, 4)
      [] FLt(dx, I(0)) /\ FEq(dy, FNeg(dx)) -> Norm(3, 4)
      [] FLt(dx, I(0)) /\ FEq(dy, dx) -> Norm(0 - 3, 4)

\* The segments whose direction has one of the angles of LineAngles: along an
\* axis toward greater x or greater y, or along a diagonal.
DirectedSegments ==
    {seg \in LineSegments :
        LET dx == QAdd(seg[2].x, FNeg(seg[1].x))
            dy == QAdd(seg[2].y, FNeg(seg[1].y))
        IN  \/ FEq(dy, I(0)) /\ FGt(dx, I(0))
            \/ FEq(dx, I(0)) /\ FGt(dy, I(0))
            \/ ~FEq(dx, I(0)) /\ (FEq(dy, dx) \/ FEq(dy, FNeg(dx)))}

InitAgree ==
    /\ pc = "start"
    /\ segment \in DirectedSegments
    /\ rect \in LineRects
    /\ cast \in CastModes
    /\ pt = segment[1]
    /\ angle = DirectionAngle(QAdd(segment[2].x, FNeg(segment[1].x)),
                              QAdd(segment[2].y, FNeg(segment[1].y)))
    /\ epb = Unused /\ base = Unused /\ sa = Unused /\ sb = Unused
    /\ ret = Unused /\ first = Unused

ExtendDirected ==
    /\ pc = "start"
    /\ first' = extend_segment_to_rect(segment, rect)
    /\ pc' = "extend_segment_to_rect"
    /\ UNCHANGED <<segment, epb, rect, pt, angle, base, sa, sb, ret, cast>>

ClipLineThrough ==
    /\ pc = "extend_segment_to_rect"
    /\ ret' = clip_line_to_rect(pt, angle, rect)
    /\ pc' = "both"
    /\ UNCHANGED <<segment, epb, rect, pt, angle, base, sa, sb, first, cast>>

NextAgree == ExtendDirected \/ ClipLineThrough

SpecAgree == InitAgree /\ [][NextAgree]_vars

----------------------------------------------------------------------------
(* Canvas: linear_clamp on a segment of Positions and a canvas *)

\* Positions run over -1 .. MaxPos in each coordinate; the bounds of a canvas
\* over 0 .. MaxPos - 1, so that a segment can start and end on every side of
\* every canvas.
MaxPos == 3

Positions == {Position(x, y) : x \in (0 - 1) .. MaxPos, y \in (0 - 1) .. MaxPos}

Canvases ==
    {[left |-> l, right |-> r, top |-> t, bottom |-> b] :
        <<l, r, t, b>> \in {q \in (0 .. MaxPos - 1) \X (0 .. MaxPos - 1)
                                  \X (0 .. MaxPos - 1) \X (0 .. MaxPos - 1) :
                                q[1] <= q[2] /\ q[3] <= q[4]}}

InitClamp ==
    /\ pc = "start"
    /\ segment \in Positions \X Positions
    /\ rect \in Canvases
    /\ epb = Unused /\ pt = Unused /\ angle = Unused /\ base = Unused
    /\ sa = Unused /\ sb = Unused
    /\ ret = Unused /\ first = Unused
    /\ cast = Unused

LinearClamp ==
    /\ pc = "start"
    /\ ret' = linear_clamp(rect, segment)
    /\ pc' = "linear_clamp"
    /\ UNCHANGED <<segment, epb, rect, pt, angle, base, sa, sb, first, cast>>

NextClamp == LinearClamp

SpecClamp == InitClamp /\ [][NextClamp]_vars

\* The caller asks again with the endpoints of the segment exchanged.
LinearClampReversed ==
    /\ pc = "linear_clamp"
    /\ first' = ret
    /\ ret' = linear_clamp(rect, <<segment[2], segment[1]>>)
    /\ pc' = "linear_clamp_reversed"
    /\ UNCHANGED <<segment, epb, rect, pt, angle, base, sa, sb, cast>>

NextClampOrder == LinearClamp \/ LinearClampReversed

SpecClampOrder == InitClamp /\ [][NextClampOrder]_vars

----------------------------------------------------------------------------
(* line_intersect and line_segment_intersect *)

\* The endpoints run over the grid 0 .. MaxInt in x and y.
MaxInt == 2

IntPositions == {Position(x, y) : x \in 0 .. MaxInt, y \in 0 .. MaxInt}

\* A pair of segments of the size of a screen, whose lines cross at (1000, 500).
ScreenSegments ==
    {<< <<Position(0, 0), Position(2000, 1000)>>,
        <<Position(0, 1000), Position(2000, 0)>> >>}

InitIntLine ==
    /\ pc = "start"
    /\ \E pair \in ((IntPositions \X IntPositions)
                       \X (IntPositions \X IntPositions)) \cup ScreenSegments :
          segment = pair[1] /\ epb = pair[2]
    /\ rect = Unused /\ pt = Unused /\ angle = Unused /\ base = Unused
    /\ sa = Unused /\ sb = Unused
    /\ ret = Unused /\ first = Unused
    /\ cast = Unused

LineIntersect ==
    /\ pc = "start"
    /\ \E build \in Builds : ret' = line_intersect(build, segment, epb)
    /\ pc' = "line_intersect"
    /\ UNCHANGED <<segment, epb, rect, pt, angle, base, sa, sb, first, cast>>

LineSegmentIntersect ==
    /\ pc = "start"
    /\ \E build \in Builds : ret' = line_segment_intersect(build, segment, epb)
    /\ pc' = "line_segment_intersect"
    /\ UNCHANGED <<segment, epb, rect, pt, angle, base, sa, sb, first, cast>>

NextIntLine == LineIntersect \/ LineSegmentIntersect

SpecIntLine == InitIntLine /\ [][NextIntLine]_vars

----------------------------------------------------------------------------
(* Angles: angle_shift and angle_classify *)

\* The angles run over the multiples of PI/4 in -MaxAngle * PI .. MaxAngle * PI
\* and the non-finite values; the bases over the multiples of PI/2 in -PI .. PI.
MaxAngle == 4

Angles ==
    {NaN, PosInf, NegInf}
        \cup {Norm(k, 4) : k \in (0 - 4 * MaxAngle) .. (4 * MaxAngle)}

Bases == {Norm(k, 2) : k \in (0 - 2) .. 2}

InitAngle ==
    /\ pc = "start"
    /\ angle \in Angles
    /\ base \in Bases
    /\ segment = Unused /\ epb = Unused /\ rect = Unused /\ pt = Unused
    /\ sa = Unused /\ sb = Unused
    /\ ret = Unused /\ first = Unused
    /\ cast = Unused

AngleShift ==
    /\ pc = "start"
    /\ ret' = angle_shift(angle, base)
    /\ pc' = "angle_shift"
    /\ UNCHANGED <<segment, epb, rect, pt, angle, base, sa, sb, first, cast>>

AngleClassify ==
    /\ pc = "start"
    /\ ret' = angle_classify(angle)
    /\ pc' = "angle_classify"
    /\ UNCHANGED <<segment, epb, rect, pt, angle, base, sa, sb, first, cast>>

NextAngle == AngleShift \/ AngleClassify

SpecAngle == InitAngle /\ [][NextAngle]_vars


----------------------------------------------------------------------------
(* What the claims speak of: plane geometry, computed independently of the code *)

FMax(a, b) == CHOOSE v \in {IF FLt(x, y) THEN y ELSE x : x \in {a}, y \in {b}} : TRUE
FMin(a, b) == CHOOSE v \in {IF FLt(x, y) THEN x ELSE y : x \in {a}, y \in {b}} : TRUE

\* p lies within the closed bounds of r.
InClosedRect(p, r) ==
    /\ FLe(r.left, p.x) /\ FLe(p.x, r.right)
    /\ FLe(r.top, p.y) /\ FLe(p.y, r.bottom)

\* (b - a) x (p - a): zero when p lies on the line through a and b.
Cross(a, b, p) ==
    QSub(QMul(QSub(b.x, a.x), QSub(p.y, a.y)),
         QMul(QSub(b.y, a.y), QSub(p.x, a.x)))

OnLineThrough(seg, p) == IsZero(Cross(seg[1], seg[2], p))

\* The parameters t at which a + t * d lies in [lo, hi], as <<least, greatest>>;
\* <<1, 0>> (empty) when d = 0 and a is outside, <<0, 1>> when d = 0 and a is inside.
Slab(a, d, lo, hi) ==
    IF IsZero(d)
    THEN IF FLe(lo, a) /\ FLe(a, hi) THEN <<I(0), I(1)>> ELSE <<I(1), I(0)>>
    ELSE LET u == QDiv(QSub(lo, a), d)
             v == QDiv(QSub(hi, a), d)
         IN  <<FMin(u, v), FMax(u, v)>>

\* The parameter interval of the part of seg inside the closed r (empty when least > greatest).
InsideParams(seg, r) ==
    LET sx == Slab(seg[1].x, QSub(seg[2].x, seg[1].x), r.left, r.right)
        sy == Slab(seg[1].y, QSub(seg[2].y, seg[1].y), r.top, r.bottom)
    IN  <<FMax(I(0), FMax(sx[1], sy[1])), FMin(I(1), FMin(sx[2], sy[2]))>>

\* seg has a point in the closed r.
SegmentMeetsRect(seg, r) ==
    LET t == InsideParams(seg, r) IN FLe(t[1], t[2])

AxisAligned(seg) == FEq(seg[1].x, seg[2].x) \/ FEq(seg[1].y, seg[2].y)

----------------------------------------------------------------------------
(* Claims about clip_segment_to_rect, under SpecClip *)

\* C1: whenever clip_segment_to_rect returns Some([p, q]), p and q lie within the
\* closed bounds of the Rect and on the line through the segment's endpoints.
C1_ClippedInsideRectOnLine ==
    (pc = "clip_segment_to_rect" /\ IsSome(ret)) =>
        /\ InClosedRect(ret[2][1], rect) /\ InClosedRect(ret[2][2], rect)
        /\ OnLineThrough(segment, ret[2][1]) /\ OnLineThrough(segment, ret[2][2])

\* C2: a segment with dx # 0 and dy # 0 that has no point in the closed Rect is
\* clipped to None.
C2_DiagonalOutsideIsNone ==
    (/\ pc = "clip_segment_to_rect"
     /\ ~AxisAligned(segment)
     /\ ~SegmentMeetsRect(segment, rect)) => IsNone(ret)

\* C3: an axis-aligned segment (dx = 0 or dy = 0) is clipped to None only if it
\* has no point in the closed Rect.
C3_AlignedNoneOnlyIfOutside ==
    (/\ pc = "clip_segment_to_rect"
     /\ AxisAligned(segment)
     /\ IsNone(ret)) => ~SegmentMeetsRect(segment, rect)

\* C4: clipping is idempotent: a segment that clip_segment_to_rect returned is
\* returned unchanged when clipped to the same Rect again.
C4_ClipIdempotent ==
    pc = "clip_again" => ret = first

----------------------------------------------------------------------------
(* Claims about intersect_segment_with_segment, under SpecIntersect *)

Degenerate(seg) == PointEq(seg[1], seg[2])

\* Every endpoint of a and b lies on one common infinite line.
OnCommonLine(a, b) ==
    LET e == {a[1], a[2], b[1], b[2]}
    IN  \A p \in e : \A q \in e : \A r \in e : IsZero(Cross(p, q, r))

\* The endpoints a and b have in common.
SharedEndpoints(a, b) == {a[1], a[2]} \cap {b[1], b[2]}

\* C5: intersect_segment_with_segment(A, B) and intersect_segment_with_segment(B, A)
\* return the same variant, and the same point when both return At.
C5_IntersectSymmetric ==
    pc = "intersect_exchanged" =>
        /\ ret[1] = first[1]
        /\ IsAt(ret) => PointEq(ret[2], first[2])

\* C6: two non-degenerate segments that are not colinear and share an endpoint P
\* intersect At(P).
C6_SharedEndpointIsAt ==
    (/\ pc = "intersect_segment_with_segment"
     /\ ~Degenerate(segment) /\ ~Degenerate(epb)
     /\ ~OnCommonLine(segment, epb)) =>
        \A p \in SharedEndpoints(segment, epb) : ret = At(p)

\* C7: intersect_segment_with_segment returns Colinear exactly when every endpoint
\* of both segments lies on one common infinite line.
C7_ColinearIffCommonLine ==
    pc = "intersect_segment_with_segment" =>
        (IsColinear(ret) <=> OnCommonLine(segment, epb))

----------------------------------------------------------------------------
(* Claims about same_sign, under SpecSign *)

\* C8: same_sign(a, b) is true exactly when a and b are both strictly positive or
\* both strictly negative.
C8_SameSignIffSameStrictSign ==
    pc = "same_sign" =>
        (ret <=> \/ FGt(sa, I(0)) /\ FGt(sb, I(0))
                 \/ FLt(sa, I(0)) /\ FLt(sb, I(0)))

----------------------------------------------------------------------------
(* Claims about invalid input, under SpecLine *)

\* C9: intersect_line_with_segment panics whenever the segment's endpoints are
\* equal or the angle is infinite or NaN, and extend_segment_to_rect panics whenever
\* the segment's endpoints are equal: no result is returned.
C9_InvalidInputPanics ==
    /\ (/\ pc = "intersect_line_with_segment"
        /\ (segment[1] = segment[2] \/ ~IsFinite(angle))) => IsPanic(ret)
    /\ (/\ pc = "extend_segment_to_rect"
        /\ segment[1] = segment[2]) => IsPanic(ret)

\* A NaN angle with a segment that is a segment: the call has panicked.
C9_Witness ==
    /\ pc = "intersect_line_with_segment"
    /\ segment[1] # segment[2]
    /\ is_nan(angle)
    /\ ret = Panic("invalid line angle")

----------------------------------------------------------------------------
(* Claims about angle_classify, under SpecAngle *)

\* The angle in [0, 2 PI) that differs from the finite angle a by whole turns.
WithinTurn(a) == QSub(a, I(2 * (a[1] \div (2 * a[2]))))

\* C10: angle_classify returns Invalid iff the angle is infinite or NaN, Horizontal
\* iff it is exactly 0, Vertical iff the angle shifted into [0, 2 PI) is PI/2, and
\* otherwise Normal of the angle shifted by whole turns into [0, 2 PI).
C10_ClassifyByShiftedAngle ==
    pc = "angle_classify" =>
        /\ ret = Invalid <=> ~IsFinite(angle)
        /\ ret = Horizontal <=> angle = I(0)
        /\ IsFinite(angle) =>
            /\ ret = Vertical <=> WithinTurn(angle) = HalfPi
            /\ (angle # I(0) /\ WithinTurn(angle) # HalfPi) =>
                    ret = Normal(WithinTurn(angle))

----------------------------------------------------------------------------
(* Claims about angle_shift, under SpecAngle *)

\* TRUE iff the finite value d is a whole number of turns (a multiple of 2 PI).
WholeTurns(d) == FRem(d, wrap) = I(0)

\* C11: for every finite value and base, angle_shift(value, base) returns r with
\* base <= r < base + 2 PI, and r differs from value by a whole number of turns.
C11_ShiftedIntoHalfOpenTurn ==
    (pc = "angle_shift" /\ IsFinite(angle)) =>
        /\ FLe(base, ret)
        /\ FLt(ret, QAdd(base, wrap))
        /\ WholeTurns(QSub(ret, angle))

----------------------------------------------------------------------------
(* Claims about extend_segment_to_rect, under SpecLine *)

\* p lies on the boundary of r: within the closed bounds and on one of the four
\* edge lines.
OnRectBoundary(p, r) ==
    /\ InClosedRect(p, r)
    /\ \/ FEq(p.x, r.left) \/ FEq(p.x, r.right)
       \/ FEq(p.y, r.top) \/ FEq(p.y, r.bottom)

\* C12: whenever extend_segment_to_rect(S, R) returns Some([p, q]) for a
\* non-degenerate S, both p and q lie on the infinite line through S's endpoints
\* and on the boundary of R.
C12_ExtendedOnLineAndBoundary ==
    (pc = "extend_segment_to_rect" /\ IsSome(ret)) =>
        \A i \in 1 .. 2 :
            /\ OnLineThrough(segment, ret[2][i])
            /\ OnRectBoundary(ret[2][i], rect)

\* The four corners of r.
Corners(r) ==
    {Point(r.left, r.top), Point(r.right, r.top),
     Point(r.left, r.bottom), Point(r.right, r.bottom)}

\* The infinite line through seg has a point in the closed r: the corners are
\* not all strictly on one side of it.
LineMeetsRect(seg, r) ==
    /\ \E p \in Corners(r) : FLe(Cross(seg[1], seg[2], p), I(0))
    /\ \E p \in Corners(r) : FGe(Cross(seg[1], seg[2], p), I(0))

\* The infinite line through seg has a point in the open interior of r: r has
\* an interior and corners strictly on both sides of the line.
LineCrossesInterior(seg, r) ==
    /\ FLt(r.left, r.right) /\ FLt(r.top, r.bottom)
    /\ \E p \in Corners(r) : FLt(Cross(seg[1], seg[2], p), I(0))
    /\ \E p \in Corners(r) : FGt(Cross(seg[1], seg[2], p), I(0))

\* C13: for a non-degenerate S, extend_segment_to_rect(S, R) returns Some when
\* the line of S passes through the open interior of R, and None when the line
\* has no point in the closed R.
C13_SomeIfInteriorNoneIfMisses ==
    (pc = "extend_segment_to_rect" /\ ~PointEq(segment[1], segment[2])) =>
        /\ LineCrossesInterior(segment, rect) => IsSome(ret)
        /\ ~LineMeetsRect(segment, rect) => IsNone(ret)

----------------------------------------------------------------------------
(* Claims about extend_segment_to_rect on two segments of one line, under SpecExtend *)

\* C14: extend_segment_to_rect depends only on the supporting line: for two
\* non-degenerate segments lying on the same infinite line, in either endpoint
\* order, the two calls with the same Rect return the same value.
C14_ExtendDependsOnLineOnly ==
    pc = "extend_other" => ret = first

\* The coefficients of the line of seg, and the numerators of its crossings
\* of the edge lines of r, are computed without rounding.
ComputedExactly(seg, r) ==
    LET a == QAdd(seg[2].y, FNeg(seg[1].y))
        b == QAdd(seg[1].x, FNeg(seg[2].x))
        c == QAdd(QMul(seg[2].x, seg[1].y), FNeg(QMul(seg[1].x, seg[2].y)))
        l == LineCoefficients(seg)
    IN  /\ l = <<a, b, c>>
        /\ \A e \in {r.top, r.bottom} :
                FSub(FMul(FNeg(b), e), c) = QAdd(QMul(FNeg(b), e), FNeg(c))
        /\ \A e \in {r.left, r.right} :
                FSub(FMul(FNeg(a), e), c) = QAdd(QMul(FNeg(a), e), FNeg(c))

\* C14, amended: for two non-degenerate segments lying on the same infinite line
\* whose line coefficients and edge crossings are computed without f32
\* rounding, the two calls with the same Rect return the same value.
C14_ExtendDependsOnLineWhenExact ==
    (/\ pc = "extend_other"
     /\ ComputedExactly(segment, rect)
     /\ ComputedExactly(epb, rect)) => ret = first

\* Two segments of one oblique line, the second neither the first nor its
\* reversal and starting where the first does not, both extended to the same
\* segment spanning the Rect.
C14_Witness ==
    /\ pc = "extend_other"
    /\ ~AxisAligned(segment)
    /\ ~PointEq(epb[1], segment[1]) /\ ~PointEq(epb[1], segment[2])
    /\ IsSome(ret)
    /\ ~PointEq(ret[2][1], ret[2][2])
    /\ ret = first

----------------------------------------------------------------------------
(* Claims about clip_line_to_rect, under SpecClipLine *)

\* A direction vector of the line at the finite angle a, a multiple of PI/4.
Direction(a) ==
    LET h == FRem(QAdd(FRem(a, I(1)), I(1)), I(1))
    IN  IF h = I(0) THEN Point(I(1), I(0))
        ELSE IF h = Norm(1, 4) THEN Point(I(1), I(1))
        ELSE IF h = Norm(1, 2) THEN Point(I(0), I(1))
        ELSE Point(I(0 - 1), I(1))

\* The parameters t at which p + t * d lies in the closed r, as
\* <<least, greatest>> (empty when least > greatest, unbounded never: d is not 0
\* in both coordinates and r is bounded).
ChordParams(p, d, r) ==
    LET sx == Slab(p.x, d.x, r.left, r.right)
        sy == Slab(p.y, d.y, r.top, r.bottom)
    IN  IF IsZero(d.x) THEN (IF FLe(sx[1], sx[2]) THEN sy ELSE sx)
        ELSE IF IsZero(d.y) THEN (IF FLe(sy[1], sy[2]) THEN sx ELSE sy)
        ELSE <<FMax(sx[1], sy[1]), FMin(sx[2], sy[2])>>

\* The point p + t * d.
Along(p, d, t) == Point(QAdd(p.x, QMul(t, d.x)), QAdd(p.y, QMul(t, d.y)))

\* r has an interior.
ProperRect(r) == FLt(r.left, r.right) /\ FLt(r.top, r.bottom)

\* C15: for a finite angle and a Rect with left < right and top < bottom,
\* clip_line_to_rect returns None iff the line has no point in the closed Rect,
\* and otherwise Some of the two extreme points of the line within the Rect.
C15_ClipLineIsChord ==
    (pc = "clip_line_to_rect" /\ IsFinite(angle) /\ ProperRect(rect)) =>
        LET d == Direction(angle)
            t == ChordParams(pt, d, rect)
        IN  IF FLe(t[1], t[2])
            THEN /\ IsSome(ret)
                 /\ {ret[2][1], ret[2][2]}
                        = {Along(pt, d, t[1]), Along(pt, d, t[2])}
            ELSE ret = None

\* C16: for a line through a corner c of the Rect that has no other point in
\* the closed Rect, clip_line_to_rect returns Some([c, c]).
C16_ClipLineCornerTangent ==
    (pc = "clip_line_to_rect" /\ IsFinite(angle) /\ ProperRect(rect)) =>
        LET d == Direction(angle)
            t == ChordParams(pt, d, rect)
            c == Along(pt, d, t[1])
        IN  (t[1] = t[2] /\ c \in Corners(rect)) => ret = Some(<<c, c>>)

----------------------------------------------------------------------------
(* Claims about corner tangency of clip_segment_to_rect, under SpecClip *)

\* The one point of seg in the closed r when seg meets r in a single point that
\* is a corner of r; None when it does not.
TangentCorner(seg, r) ==
    LET t == InsideParams(seg, r)
        d == Point(QSub(seg[2].x, seg[1].x), QSub(seg[2].y, seg[1].y))
        c == Along(seg[1], d, t[1])
    IN  IF t[1] = t[2] /\ c \in Corners(r) THEN Some(c) ELSE None

TangentParamExact(seg, r) ==
    LET t == InsideParams(seg, r)[1] IN RoundF32(t) = t

----------------------------------------------------------------------------
(* Claims about Canvas::linear_clamp, under SpecClamp *)

IMin(m, n) == IF m < n THEN m ELSE n
IMax(m, n) == IF m < n THEN n ELSE m

\* The horizontal or vertical segment seg has a point within the closed bounds
\* of the canvas cv.
AlignedMeetsCanvas(cv, seg) ==
    /\ IMax(seg[1].x, seg[2].x) >= cv.left
    /\ IMin(seg[1].x, seg[2].x) <= cv.right
    /\ IMax(seg[1].y, seg[2].y) >= cv.top
    /\ IMin(seg[1].y, seg[2].y) <= cv.bottom

\* seg starts before the canvas and ends after it, along x or along y.
SpansCanvas(cv, seg) ==
    \/ IMin(seg[1].x, seg[2].x) < cv.left /\ IMax(seg[1].x, seg[2].x) > cv.right
    \/ IMin(seg[1].y, seg[2].y) < cv.top /\ IMax(seg[1].y, seg[2].y) > cv.bottom

\* C18: on a horizontal or vertical segment linear_clamp returns None exactly
\* when the segment has no point within the closed canvas bounds; a segment at a
\* contained y (x) whose endpoints lie on opposite sides of the canvas yields
\* Some with both endpoints clamped to the bounds.
C18_AlignedNoneIffOutside ==
    (/\ pc = "linear_clamp"
     /\ (segment[1].x = segment[2].x \/ segment[1].y = segment[2].y)) =>
        /\ ret = None <=> ~AlignedMeetsCanvas(rect, segment)
        /\ (AlignedMeetsCanvas(rect, segment) /\ SpansCanvas(rect, segment)) =>
              /\ IsSome(ret)
              /\ \A i \in 1 .. 2 :
                    /\ Canvas_contains_x(rect, ret[2][i].x)
                    /\ Canvas_contains_y(rect, ret[2][i].y)

\* C19: whenever linear_clamp returns Some([a, b]), both a and b lie within the
\* closed canvas bounds.
C19_ClampedWithinCanvas ==
    (pc = "linear_clamp" /\ IsSome(ret)) =>
        \A i \in 1 .. 2 :
            /\ Canvas_contains_x(rect, ret[2][i].x)
            /\ Canvas_contains_y(rect, ret[2][i].y)

----------------------------------------------------------------------------
(* Claims about the point of intersect_segment_with_segment, under SpecIntersect *)

\* The coefficients <<a, b, c>> of the line through seg, in exact arithmetic.
ExactCoefficients(seg) ==
    <<QSub(seg[2].y, seg[1].y),
      QSub(seg[1].x, seg[2].x),
      QSub(QMul(seg[2].x, seg[1].y), QMul(seg[1].x, seg[2].y))>>

\* a1 * b2 - a2 * b1 for the lines of sega and segb, in exact arithmetic.
Denominator(sega, segb) ==
    LET l1 == ExactCoefficients(sega)
        l2 == ExactCoefficients(segb)
    IN  QSub(QMul(l1[1], l2[2]), QMul(l2[1], l1[2]))

\* The point where the lines of sega and segb cross, in exact arithmetic.
Crossing(sega, segb) ==
    LET l1 == ExactCoefficients(sega)
        l2 == ExactCoefficients(segb)
        denom == Denominator(sega, segb)
    IN  Point(QDiv(QSub(QMul(l1[2], l2[3]), QMul(l2[2], l1[3])), denom),
              QDiv(QSub(QMul(l2[1], l1[3]), QMul(l1[1], l2[3])), denom))

\* p lies within the coordinate ranges of seg.
InRanges(seg, p) ==
    /\ FLe(FMin(seg[1].x, seg[2].x), p.x) /\ FLe(p.x, FMax(seg[1].x, seg[2].x))
    /\ FLe(FMin(seg[1].y, seg[2].y), p.y) /\ FLe(p.y, FMax(seg[1].y, seg[2].y))

\* C20: whenever intersect_segment_with_segment(A, B) returns At(p), the
\* denominator a1 * b2 - a2 * b1 is not zero and p is the point where the two
\* lines cross (in exact arithmetic; p is that point rounded), which lies within
\* the coordinate ranges of A and of B.
C20_AtIsOnBothSegments ==
    (pc = "intersect_segment_with_segment" /\ IsAt(ret)) =>
        /\ ~IsZero(Denominator(segment, epb))
        /\ LET q == Crossing(segment, epb)
           IN  /\ ret[2] = Point(RoundF32(q.x), RoundF32(q.y))
               /\ InRanges(segment, q)
               /\ InRanges(epb, q)

----------------------------------------------------------------------------
(* Claims about intersect_line_with_segment on a horizontal or vertical line, *)
(* under SpecLine                                                            *)

\* The u at which the segment from (u1, v1) to (u2, v2), v1 # v2, is at v,
\* in exact arithmetic.
MeetsAt(u1, v1, u2, v2, v) ==
    QAdd(u1, QDiv(QMul(QSub(v, v1), QSub(u2, u1)), QSub(v2, v1)))

\* v lies in the closed range between v1 and v2.
Between(v1, v2, v) == FLe(FMin(v1, v2), v) /\ FLe(v, FMax(v1, v2))

\* The three cases of a line along an axis: `across` is the line's own
\* coordinate (pt.y for a horizontal line), <<u1, v1>> and <<u2, v2>> are the
\* segment's endpoints with v the coordinate across the line, and <<hit_u,
\* hit_v>> is the returned point when there is one.
AxisCases(across, u1, v1, u2, v2, result, hit_u, hit_v) ==
    /\ IsColinear(result) <=> (v1 = v2 /\ across = v1)
    /\ IsAt(result) <=> (v1 # v2 /\ Between(v1, v2, across))
    /\ IsNone(result) <=> ~(v1 = v2 /\ across = v1)
                             /\ ~(v1 # v2 /\ Between(v1, v2, across))
    /\ IsAt(result) =>
        /\ hit_v = across
        /\ hit_u = RoundF32(MeetsAt(u1, v1, u2, v2, across))
        /\ Between(u1, u2, MeetsAt(u1, v1, u2, v2, across))

----------------------------------------------------------------------------
(* Claims about the Normal class of angle_classify, under SpecAngle *)

\* TRUE iff the finite angle a is a whole multiple of PI/2: its line is
\* horizontal or vertical.
AlongAxis(a) == FRem(a, HalfPi) = I(0)

\* C22: angle_classify returns Normal only for angles whose line is neither
\* horizontal nor vertical: no whole multiple of PI/2 is classified Normal.
C22_NormalIsOffAxis ==
    (pc = "angle_classify" /\ IsFinite(angle) /\ AlongAxis(angle)) =>
        ret[1] # "Normal"

----------------------------------------------------------------------------
(* Claims about degenerate results of extend_segment_to_rect, under SpecLine *)

\* The parameters t at which a + t * d lies in [lo, hi], for a line: every t
\* when d = 0 and a is inside, none when d = 0 and a is outside.
LineSlab(a, d, lo, hi) ==
    IF IsZero(d)
    THEN IF FLe(lo, a) /\ FLe(a, hi) THEN <<NegInf, PosInf>> ELSE <<PosInf, NegInf>>
    ELSE <<FMin(QDiv(QSub(lo, a), d), QDiv(QSub(hi, a), d)),
           FMax(QDiv(QSub(lo, a), d), QDiv(QSub(hi, a), d))>>

\* The parameter interval <<least, greatest>> of the part of the infinite line
\* seg[1] + t * (seg[2] - seg[1]) inside the closed r (empty when least > greatest).
LineInside(seg, r) ==
    LET sx == LineSlab(seg[1].x, QSub(seg[2].x, seg[1].x), r.left, r.right)
        sy == LineSlab(seg[1].y, QSub(seg[2].y, seg[1].y), r.top, r.bottom)
    IN  <<FMax(sx[1], sy[1]), FMin(sx[2], sy[2])>>

\* The point of the line through seg at the parameter t.
PointAt(seg, t) ==
    Point(QAdd(seg[1].x, QMul(t, QSub(seg[2].x, seg[1].x))),
          QAdd(seg[1].y, QMul(t, QSub(seg[2].y, seg[1].y))))

\* C23: extend_segment_to_rect returns a degenerate segment [c, c] only when
\* the line of the segment meets the closed Rect in exactly one point, and then
\* c is that point (a corner of a Rect that has an interior); a line with more
\* than one point in the Rect yields two distinct endpoints.
C23_DegenerateOnlyAtSinglePoint ==
    (pc = "extend_segment_to_rect" /\ IsSome(ret) /\ ret[2][1] = ret[2][2]) =>
        LET t == LineInside(segment, rect)
        IN  /\ t[1] = t[2]
            /\ ret[2][1] = PointAt(segment, t[1])
            /\ (FLt(rect.left, rect.right) /\ FLt(rect.top, rect.bottom)) =>
                    ret[2][1] \in Corners(rect)

----------------------------------------------------------------------------
(* Claims about clip_segment_to_rect on a reversed segment, under SpecReverse *)

\* C24: reversing the input reverses the output of clip_segment_to_rect:
\* clip_segment_to_rect([B, A], R) is None iff clip_segment_to_rect([A, B], R)
\* is None, and otherwise it is Some([q, p]) where the other is Some([p, q]).
C24_ReversedInputReversedOutput ==
    pc = "clip_reversed" =>
        /\ IsNone(ret) <=> IsNone(first)
        /\ IsSome(first) => ret = Some(<<first[2][2], first[2][1]>>)


\* The parameters clip_segment_to_rect may use for seg and r, in exact
\* arithmetic: 0, 1 and those of the four edges.
EdgeParams(seg, r) ==
    {I(0), I(1)}
        \cup {QDiv(QSub(e, seg[1].y), QSub(seg[2].y, seg[1].y)) : e \in {r.top, r.bottom}}
        \cup {QDiv(QSub(e, seg[1].x), QSub(seg[2].x, seg[1].x)) : e \in {r.left, r.right}}

\* No operation of clip_segment_to_rect(seg, r) rounds: the differences, the
\* parameters of the edges and the points at those parameters are values an
\* f32 holds.  (An axis-aligned segment is clamped, not computed.)
ClipsWithoutRounding(seg, r) ==
    LET dx == QSub(seg[2].x, seg[1].x)
        dy == QSub(seg[2].y, seg[1].y)
    IN  \/ IsZero(dx)
        \/ IsZero(dy)
        \/ /\ RoundF32(dx) = dx
           /\ RoundF32(dy) = dy
           /\ \A t \in EdgeParams(seg, r) :
                /\ RoundF32(t) = t
                /\ RoundF32(QMul(dx, t)) = QMul(dx, t)
                /\ RoundF32(QMul(dy, t)) = QMul(dy, t)
                /\ RoundF32(QAdd(seg[1].x, QMul(dx, t))) = QAdd(seg[1].x, QMul(dx, t))
                /\ RoundF32(QAdd(seg[1].y, QMul(dy, t))) = QAdd(seg[1].y, QMul(dy, t))

\* C24, amended: when no operation of either call rounds, reversing the input
\* reverses the output of clip_segment_to_rect.
C24_ReversedWhenExact ==
    (/\ pc = "clip_reversed"
     /\ ClipsWithoutRounding(segment, rect)
     /\ ClipsWithoutRounding(<<segment[2], segment[1]>>, rect)) =>
        /\ IsNone(ret) <=> IsNone(first)
        /\ IsSome(first) => ret = Some(<<first[2][2], first[2][1]>>)

\* A slanted segment that was cut at both ends to two different points, and
\* its reverse to the same two points in the other order, with nothing rounded.
C24_Witness ==
    /\ pc = "clip_reversed"
    /\ ~AxisAligned(segment)
    /\ ClipsWithoutRounding(segment, rect)
    /\ ClipsWithoutRounding(<<segment[2], segment[1]>>, rect)
    /\ IsSome(first)
    /\ first[2][1] # first[2][2]
    /\ first[2][1] # segment[1] /\ first[2][2] # segment[2]
    /\ ret = Some(<<first[2][2], first[2][1]>>)

----------------------------------------------------------------------------
(* Claims about where the clipped segment lies, under SpecClip *)

\* The parameter of p along seg, in exact arithmetic, taken from the coordinate
\* in which seg moves (0 for a segment that is a point).
ParamOn(seg, p) ==
    IF seg[1].x # seg[2].x
    THEN QDiv(QSub(p.x, seg[1].x), QSub(seg[2].x, seg[1].x))
    ELSE IF seg[1].y # seg[2].y
    THEN QDiv(QSub(p.y, seg[1].y), QSub(seg[2].y, seg[1].y))
    ELSE I(0)

\* p = A + t0 * (B - A) and q = A + t1 * (B - A) for some 0 <= t0 <= t1 <= 1,
\* where seg is [A, B].
WithinInOrder(seg, p, q) ==
    LET t0 == ParamOn(seg, p)
        t1 == ParamOn(seg, q)
    IN  /\ p = PointAt(seg, t0)
        /\ q = PointAt(seg, t1)
        /\ FLe(I(0), t0) /\ FLe(t0, t1) /\ FLe(t1, I(1))

\* C25: clip_segment_to_rect never leaves the input segment and preserves its
\* direction: whenever it returns Some([p, q]) for the segment [A, B],
\* p = A + t0 * (B - A) and q = A + t1 * (B - A) for some 0 <= t0 <= t1 <= 1.
C25_ClippedWithinSegmentInOrder ==
    (pc = "clip_segment_to_rect" /\ IsSome(ret)) =>
        WithinInOrder(segment, ret[2][1], ret[2][2])

\* C25, amended: the same, when no operation of the call rounds.
C25_ClippedWithinSegmentWhenExact ==
    (/\ pc = "clip_segment_to_rect"
     /\ IsSome(ret)
     /\ ClipsWithoutRounding(segment, rect)) =>
        WithinInOrder(segment, ret[2][1], ret[2][2])

\* A slanted segment, nothing rounded, cut at both ends: 0 < t0 < t1 < 1.
C25_Witness ==
    /\ pc = "clip_segment_to_rect"
    /\ IsSome(ret)
    /\ ~AxisAligned(segment)
    /\ ClipsWithoutRounding(segment, rect)
    /\ FLt(I(0), ParamOn(segment, ret[2][1]))
    /\ FLt(ParamOn(segment, ret[2][1]), ParamOn(segment, ret[2][2]))
    /\ FLt(ParamOn(segment, ret[2][2]), I(1))

----------------------------------------------------------------------------
(* Claims about linear_clamp on a reversed segment, under SpecClampOrder *)

\* C26: linear_clamp does not depend on the order of the endpoints: for every
\* segment [A, B], diagonal, horizontal or vertical,
\* linear_clamp([A, B]) = linear_clamp([B, A]).
C26_ClampIgnoresEndpointOrder ==
    pc = "linear_clamp_reversed" => ret = first

----------------------------------------------------------------------------
(* Claims about line_intersect and line_segment_intersect, under SpecIntLine *)

\* (b - a) x (p - a) on Positions, for the small positions of the grid.
IntCross(a, b, p) == (b.x - a.x) * (p.y - a.y) - (b.y - a.y) * (p.x - a.x)

\* The two segments lie on one infinite line (a segment that is a point lies
\* on every line through it).
SameInfiniteLine(sega, segb) ==
    /\ IntCross(sega[1], sega[2], segb[1]) = 0
    /\ IntCross(sega[1], sega[2], segb[2]) = 0
    /\ IntCross(segb[1], segb[2], sega[1]) = 0
    /\ IntCross(segb[1], segb[2], sega[2]) = 0

\* C27: line_intersect returns Colinear only when the two segments' lines are
\* the same infinite line; for two distinct parallel lines it does not.
C27_ColinearOnlyOnOneLine ==
    (/\ pc = "line_intersect"
     /\ segment[1] # segment[2]
     /\ epb[1] # epb[2]
     /\ ret = LineIntersectColinear) => SameInfiniteLine(segment, epb)


\* The exact coefficients <<a, b, c>> of the line of ep, divided by their
\* common factor: the same line, and the same quotients num / denom.
ReducedLine(ep) ==
    LET a == ep[2].y - ep[1].y
        b == ep[1].x - ep[2].x
        c == ep[2].x * ep[1].y - ep[1].x * ep[2].y
        g == GCD(GCD(Abs(a), Abs(b)), Abs(c))
    IN  IF g = 0 THEN <<a, b, c>>
        ELSE <<Sgn(a) * (Abs(a) \div g), Sgn(b) * (Abs(b) \div g),
               Sgn(c) * (Abs(c) \div g)>>

\* v is num / denom rounded to a nearest integer.
NearestTo(v, num, denom) == 2 * Abs(v * denom - num) <= Abs(denom)

\* p is the crossing of the lines of sega and segb, each coordinate rounded
\* to a nearest integer.
RoundedCrossing(p, sega, segb) ==
    LET l1 == ReducedLine(sega)
        l2 == ReducedLine(segb)
        denom == l1[1] * l2[2] - l2[1] * l1[2]
    IN  /\ NearestTo(p.x, l1[2] * l2[3] - l2[2] * l1[3], denom)
        /\ NearestTo(p.y, l2[1] * l1[3] - l1[1] * l2[3], denom)

\* C28: each coordinate of the Point that line_intersect and
\* line_segment_intersect return is the exact quotient num / denom rounded to
\* a nearest integer: 2 * |x * denom - num| <= |denom|.
C28_PointIsRoundedCrossing ==
    (/\ pc \in {"line_intersect", "line_segment_intersect"}
     /\ IsLineIntersectPoint(ret)) => RoundedCrossing(ret[2], segment, epb)


----------------------------------------------------------------------------
(* Claims about clip_line_to_rect on a Rect without width, under SpecClipLine *)

----------------------------------------------------------------------------
(* Claims about a segment and the line through it, under SpecAgree *)

\* Two results are both None, or both Some with the same unordered pair of
\* endpoints.
SameChord(r1, r2) ==
    \/ IsNone(r1) /\ IsNone(r2)
    \/ /\ IsSome(r1) /\ IsSome(r2)
       /\ \/ PointEq(r1[2][1], r2[2][1]) /\ PointEq(r1[2][2], r2[2][2])
          \/ PointEq(r1[2][1], r2[2][2]) /\ PointEq(r1[2][2], r2[2][1])

\* C30: for a non-degenerate segment [A, B], a Rect with left < right and
\* top < bottom, and the angle of the direction B - A,
\* extend_segment_to_rect([A, B], R) and clip_line_to_rect(A, angle, R) are
\* both None or both Some with the same unordered pair of endpoints.
C30_ExtendAgreesWithClipLine ==
    (/\ pc = "both"
     /\ FLt(rect.left, rect.right)
     /\ FLt(rect.top, rect.bottom)) => SameChord(first, ret)

=============================================================================
